---- MODULE Spec2Model ----
(***************************************************************************)
(* Clinical Trial DMC Dashboard (src/demodash.py, src/refactor.py,         *)
(* src/refactor3.py).                                                      *)
(*                                                                         *)
(* A data frame is a record [columns, rows]: the set of column names of    *)
(* its schema and the sequence of its rows, each row a function from the   *)
(* columns to cell values.  A missing cell is NaN (NaNf in the numeric     *)
(* column LBSTRESN).  A pandas Series of counts is a sequence of           *)
(* [key, count] records, in the order pandas lists them.  A mean is the    *)
(* exact rational [num, den] in lowest terms; the mean of no value is      *)
(* NaNMean.                                                                *)
(*                                                                         *)
(* Category keys are strings; KeyOrder lists them in Python's string       *)
(* order, which is how "key ascending" is read.                            *)
(***************************************************************************)
EXTENDS Integers, Sequences, FiniteSets, TLC

VARIABLES
    pc,      \* the position of the run
    source,  \* the loader in use: "github", "local", or "direct" (a bare call)
    files,   \* what each CSV file holds: a data frame, or how reading it fails
    dm,      \* the demographics data frame, None, or Unset
    lb,      \* the laboratory data frame, None, or Unset
    ae,      \* the adverse-event data frame, None, or Unset
    enr,     \* what enrollment_metrics (demodash.py, refactor3.py) did
    enr1,    \* what enrollment_metrics (refactor.py) did
    aes,     \* what create_ae_summary did
    lab      \* what analyze_lab_data did

vars == <<pc, source, files, dm, lb, ae, enr, enr1, aes, lab>>

(***************************************************************************)
(* Bounds of the model.                                                    *)
(***************************************************************************)
\* the longest data frame drawn from the row palettes
MaxRows == 3
\* the most distinct AEDECOD terms of a data frame of the many-terms family
NTerms == 11
\* the most rows that repeat a term in the many-terms family
MaxExtra == 2

(***************************************************************************)
(* Values.                                                                 *)
(***************************************************************************)
\* a missing cell of a string column
NaN == "NaN"
\* a missing cell of the numeric column LBSTRESN (outside the results drawn)
NaNf == -1
\* Python's None: a load that failed
None == [none |-> TRUE]
\* a variable not assigned yet
Unset == [unset |-> TRUE]
\* an analyzer that was not called
Pending == [state |-> "pending"]
\* pd.Series(): the empty series
EmptySeries == <<>>
\* the mean of no value
NaNMean == [num |-> 0, den |-> 0]

isna(v) == v = NaN

\* a data frame with schema cols, holding the cells of rows under cols
DataFrame(cols, rows) ==
    [columns |-> cols,
     rows |-> [i \in 1..Len(rows) |-> [c \in cols |-> rows[i][c]]]]

\* df[c]: the column as a sequence of cells
Column(df, c) == [i \in 1..Len(df.rows) |-> df.rows[i][c]]

\* len(df)
len(df) == Len(df.rows)

(***************************************************************************)
(* Series.value_counts(): the distinct non-missing values with the number  *)
(* of rows holding each, most frequent first.  pandas leaves the order of  *)
(* equally frequent values to its sort: the model takes it from a tie      *)
(* order t, a rotation (and maybe reversal) of the order of first          *)
(* appearance, chosen by the caller's \E.                                  *)
(***************************************************************************)
\* unique, were the missing values kept as a key of their own
RECURSIVE unique_keepna(_)
unique_keepna(s) ==
    IF Len(s) = 0 THEN <<>>
    ELSE LET h == unique_keepna(SubSeq(s, 1, Len(s) - 1))
             x == s[Len(s)]
         IN  IF \E i \in 1..Len(h) : h[i] = x THEN h ELSE Append(h, x)

RECURSIVE unique(_)
unique(s) ==
    IF Len(s) = 0 THEN <<>>
    ELSE LET h == unique(SubSeq(s, 1, Len(s) - 1))
             x == s[Len(s)]
         IN  IF isna(x) \/ (\E i \in 1..Len(h) : h[i] = x) THEN h
             ELSE Append(h, x)

CountOf(s, k) == Cardinality({i \in 1..Len(s) : s[i] = k})

TieOrders(s) ==
    LET n == Len(unique(s))
    IN  {[rot |-> r, rev |-> b] : r \in 0..(IF n = 0 THEN 0 ELSE n - 1),
                                  b \in BOOLEAN}

StableTie == [rot |-> 0, rev |-> FALSE]

TieOrder(u, t) ==
    LET n == Len(u)
        rotated == [i \in 1..n |-> u[((i - 1 + t.rot) % n) + 1]]
    IN  IF t.rev THEN [i \in 1..n |-> rotated[n + 1 - i]] ELSE rotated

\* SortDescending, were the least frequent listed first
RECURSIVE SortAscending(_, _, _)
SortAscending(order, s, c) ==
    IF c = 0 THEN <<>>
    ELSE SortAscending(order, s, c - 1)
             \o SelectSeq(order, LAMBDA k : CountOf(s, k) = c)

RECURSIVE SortDescending(_, _, _)
SortDescending(order, s, c) ==
    IF c = 0 THEN <<>>
    ELSE SelectSeq(order, LAMBDA k : CountOf(s, k) = c)
             \o SortDescending(order, s, c - 1)

value_counts(s, t) ==
    LET keys == SortDescending(TieOrder(unique(s), t), s, Len(s))
    IN  [i \in 1..Len(keys) |-> [key |-> keys[i], count |-> CountOf(s, keys[i])]]

(***************************************************************************)
(* The tie orders a call may meet on column c of df.                       *)
(***************************************************************************)
Ties(df, c) ==
    IF c \in df.columns THEN TieOrders(Column(df, c)) ELSE {StableTie}

\* df[c] on a data frame without column c
KeyError(c) == [state |-> "raised", error |-> "KeyError", key |-> c]

\* enrollment_metrics, were the comparison with 'SCRNFAIL' inverted
enrollment_metrics_inverted(d, t1, t2) ==
    IF "SITEID" \notin d.columns THEN KeyError("SITEID")
    ELSE IF "ARM" \notin d.columns THEN KeyError("ARM")
    ELSE [state |-> "returned",
          total_subjects |-> len(d),
          subjects_by_site |-> value_counts(Column(d, "SITEID"), t1),
          subjects_by_arm |-> value_counts(Column(d, "ARM"), t2),
          screen_failures |->
              IF "ARMCD" \in d.columns
              THEN Cardinality({i \in 1..len(d) : d.rows[i]["ARMCD"] # "SCRNFAIL"})
              ELSE 0]

\* enrollment_metrics(dm) of demodash.py and refactor3.py
enrollment_metrics(d, t1, t2) ==
    IF "SITEID" \notin d.columns THEN KeyError("SITEID")
    ELSE IF "ARM" \notin d.columns THEN KeyError("ARM")
    ELSE [state |-> "returned",
          total_subjects |-> len(d),
          subjects_by_site |-> value_counts(Column(d, "SITEID"), t1),
          subjects_by_arm |-> value_counts(Column(d, "ARM"), t2),
          screen_failures |->
              IF "ARMCD" \in d.columns
              THEN Cardinality({i \in 1..len(d) : d.rows[i]["ARMCD"] = "SCRNFAIL"})
              ELSE 0]

(***************************************************************************)
(* enrollment_metrics(dm) of refactor.py: the race distribution in place   *)
(* of the arms.                                                            *)
(***************************************************************************)
refactor_enrollment_metrics(d, t1, t2) ==
    IF "SITEID" \notin d.columns THEN KeyError("SITEID")
    ELSE [state |-> "returned",
          total_subjects |-> len(d),
          subjects_by_site |-> value_counts(Column(d, "SITEID"), t1),
          race_distribution |->
              IF "RACE" \in d.columns
              THEN value_counts(Column(d, "RACE"), t2)
              ELSE EmptySeries,
          screen_failures |->
              IF "ARMCD" \in d.columns
              THEN Cardinality({i \in 1..len(d) : d.rows[i]["ARMCD"] = "SCRNFAIL"})
              ELSE 0]

(***************************************************************************)
(* create_ae_summary(ae).                                                  *)
(***************************************************************************)
\* value_counts().head(10)
TopN == 10

\* head, were it to keep one entry more
head_one_more(s, n) == SubSeq(s, 1, IF Len(s) < n + 1 THEN Len(s) ELSE n + 1)

\* Series.head(n)
head(s, n) == SubSeq(s, 1, IF Len(s) < n THEN Len(s) ELSE n)

create_ae_summary(d, t1, t2, t3) ==
    [state |-> "returned",
     ae_by_severity |->
         IF "AESEV" \in d.columns
         THEN value_counts(Column(d, "AESEV"), t1)
         ELSE EmptySeries,
     serious_ae |->
         IF "AESER" \in d.columns
         THEN value_counts(Column(d, "AESER"), t2)
         ELSE EmptySeries,
     common_ae |->
         IF "AEDECOD" \in d.columns
         THEN head(value_counts(Column(d, "AEDECOD"), t3), TopN)
         ELSE EmptySeries]

(***************************************************************************)
(* analyze_lab_data(lb) and what it is built from.                         *)
(***************************************************************************)
\* every category key of the model, in Python's string order
KeyOrder ==
    << "101", "102", "A", "ALT", "ASIAN", "AST", "B", "FATIGUE", "HEADACHE",
       "MILD", "MODERATE", "N", "NAUSEA", "SEVERE",
       "T01", "T02", "T03", "T04", "T05", "T06", "T07", "T08", "T09", "T10",
       "T11", "T12", "T13", "WHITE", "Y" >>

KeyRank(k) == CHOOSE i \in 1..Len(KeyOrder) : KeyOrder[i] = k

\* a < b on strings
KeyLess(a, b) == KeyRank(a) < KeyRank(b)

\* the group keys of groupby(c): the distinct non-missing values, sorted
GroupKeys(s) ==
    LET u == unique(s)
        present(k) == \E i \in 1..Len(u) : u[i] = k
    IN  SelectSeq(KeyOrder, present)

RECURSIVE Sum(_, _)
Sum(f, S) ==
    IF S = {} THEN 0
    ELSE LET i == CHOOSE j \in S : TRUE IN f[i] + Sum(f, S \ {i})

RECURSIVE GCD(_, _)
GCD(a, b) == IF b = 0 THEN a ELSE GCD(b, a % b)

\* Series.mean() over the rows idx of column s: missing values are skipped
mean(s, idx) ==
    LET valid == {i \in idx : s[i] # NaNf}
        total == Sum(s, valid)
        n == Cardinality(valid)
        g == GCD(total, n)
    IN  IF n = 0 THEN NaNMean
        ELSE [num |-> total \div g, den |-> n \div g]

\* df.groupby(by)[c].mean()
groupby_mean(d, by, c) ==
    LET keys == GroupKeys(Column(d, by))
    IN  [i \in 1..Len(keys) |->
            [key |-> keys[i],
             mean |-> mean(Column(d, c),
                           {r \in 1..len(d) : d.rows[r][by] = keys[i]})]]

\* AbnormalCodes, were the low results forgotten
AbnormalCodes_high_only == {"H"}

\* the codes of an abnormal result
AbnormalCodes == {"L", "H"}

\* df[df[c].isin(codes)]
filter_isin(d, c, codes) ==
    [columns |-> d.columns,
     rows |-> SelectSeq(d.rows, LAMBDA r : r[c] \in codes)]

\* analyze_lab_data, were the means computed only beside the abnormal counts
analyze_lab_data_all_columns(d, t) ==
    IF {"LBSTRESN", "LBTEST", "LBNRIND"} \subseteq d.columns
    THEN [state |-> "returned",
          lab_means |-> groupby_mean(d, "LBTEST", "LBSTRESN"),
          abnormal_labs |->
              value_counts(
                  Column(filter_isin(d, "LBNRIND", AbnormalCodes), "LBTEST"), t)]
    ELSE [state |-> "returned",
          lab_means |-> EmptySeries,
          abnormal_labs |-> EmptySeries]

\* analyze_lab_data, were the abnormal counts not nested under the test for
\* the LBSTRESN column
analyze_lab_data_ungated(d, t) ==
    [state |-> "returned",
     lab_means |->
         IF "LBSTRESN" \in d.columns /\ "LBTEST" \in d.columns
         THEN groupby_mean(d, "LBTEST", "LBSTRESN")
         ELSE EmptySeries,
     abnormal_labs |->
         IF "LBNRIND" \in d.columns /\ "LBTEST" \in d.columns
         THEN value_counts(
                  Column(filter_isin(d, "LBNRIND", AbnormalCodes), "LBTEST"), t)
         ELSE EmptySeries]

\* analyze_lab_data(lb)
analyze_lab_data(d, t) ==
    IF "LBSTRESN" \in d.columns /\ "LBTEST" \in d.columns
    THEN [state |-> "returned",
          lab_means |-> groupby_mean(d, "LBTEST", "LBSTRESN"),
          abnormal_labs |->
              IF "LBNRIND" \in d.columns
              THEN value_counts(
                       Column(filter_isin(d, "LBNRIND", AbnormalCodes), "LBTEST"), t)
              ELSE EmptySeries]
    ELSE [state |-> "returned",
          lab_means |-> EmptySeries,
          abnormal_labs |-> EmptySeries]

\* the tie orders the abnormal count may meet
LabTies(d) ==
    IF {"LBSTRESN", "LBTEST", "LBNRIND"} \subseteq d.columns
    THEN TieOrders(Column(filter_isin(d, "LBNRIND", AbnormalCodes), "LBTEST"))
    ELSE {StableTie}

(***************************************************************************)
(* The inputs drawn.  Each palette holds every value of every column, so   *)
(* each column runs over all its sequences of up to MaxRows cells.         *)
(***************************************************************************)
DMColumns == {"SITEID", "ARM", "RACE", "ARMCD"}

DMRows ==
    { [SITEID |-> "101", ARM |-> "A", RACE |-> "WHITE", ARMCD |-> "TRTA"],
      [SITEID |-> "101", ARM |-> "B", RACE |-> "ASIAN", ARMCD |-> "TRTB"],
      [SITEID |-> "102", ARM |-> "A", RACE |-> "ASIAN", ARMCD |-> "SCRNFAIL"],
      [SITEID |-> "102", ARM |-> NaN, RACE |-> NaN,     ARMCD |-> "SCRNFAIL"],
      [SITEID |-> NaN,   ARM |-> "B", RACE |-> "WHITE", ARMCD |-> NaN] }

AEColumns == {"AESEV", "AESER", "AEDECOD"}

AERows ==
    { [AESEV |-> "MILD",     AESER |-> "N", AEDECOD |-> "HEADACHE"],
      [AESEV |-> "SEVERE",   AESER |-> "Y", AEDECOD |-> "NAUSEA"],
      [AESEV |-> "MILD",     AESER |-> "Y", AEDECOD |-> "FATIGUE"],
      [AESEV |-> "MODERATE", AESER |-> NaN, AEDECOD |-> "HEADACHE"],
      [AESEV |-> NaN,        AESER |-> "N", AEDECOD |-> NaN] }

LBColumns == {"LBTEST", "LBSTRESN", "LBNRIND"}

LBRows ==
    { [LBTEST |-> "ALT", LBSTRESN |-> 10,   LBNRIND |-> "normal"],
      [LBTEST |-> "ALT", LBSTRESN |-> 30,   LBNRIND |-> "high"],
      [LBTEST |-> "AST", LBSTRESN |-> 20,   LBNRIND |-> "normal"],
      [LBTEST |-> "ALT", LBSTRESN |-> 30,   LBNRIND |-> "H"],
      [LBTEST |-> "AST", LBSTRESN |-> NaNf, LBNRIND |-> "L"],
      [LBTEST |-> NaN,   LBSTRESN |-> 20,   LBNRIND |-> "H"],
      [LBTEST |-> "AST", LBSTRESN |-> 10,   LBNRIND |-> NaN] }

SeqsUpTo(S, n) == UNION {[1..k -> S] : k \in 0..n}

DMInputs ==
    {DataFrame(cols, rows) : cols \in SUBSET DMColumns,
                             rows \in SeqsUpTo(DMRows, MaxRows)}

LBInputs ==
    {DataFrame(cols, rows) : cols \in SUBSET LBColumns,
                             rows \in SeqsUpTo(LBRows, MaxRows)}

\* the many-terms family: n distinct terms, one row each, in ascending or
\* descending order, then up to MaxExtra rows repeating the first or the
\* last of them
TermNames ==
    << "T01", "T02", "T03", "T04", "T05", "T06", "T07", "T08", "T09", "T10",
       "T11", "T12", "T13" >>

ManyTerms ==
    UNION { { LET base == [i \in 1..n |->
                             TermNames[IF desc THEN n + 1 - i ELSE i]]
              IN  base \o [i \in 1..Len(x) |-> base[x[i]]]
              : x \in SeqsUpTo({1, n}, IF n = 0 THEN 0 ELSE MaxExtra) }
            : n \in 0..NTerms, desc \in BOOLEAN }

AEInputs ==
    {DataFrame(cols, rows) : cols \in SUBSET AEColumns,
                             rows \in SeqsUpTo(AERows, MaxRows)}
    \cup {DataFrame({"AEDECOD"}, [i \in 1..Len(t) |-> [AEDECOD |-> t[i]]])
             : t \in ManyTerms}

(***************************************************************************)
(* A bare call of one analyzer on one input.                               *)
(***************************************************************************)
Init ==
    /\ source = "direct"
    /\ files = <<>>
    /\ enr = Pending /\ enr1 = Pending /\ aes = Pending /\ lab = Pending
    /\ \/ /\ pc \in {"enrollment_metrics", "refactor_enrollment_metrics"}
          /\ dm \in DMInputs /\ lb = Unset /\ ae = Unset
       \/ /\ pc = "create_ae_summary"
          /\ ae \in AEInputs /\ dm = Unset /\ lb = Unset
       \/ /\ pc = "analyze_lab_data"
          /\ lb \in LBInputs /\ dm = Unset /\ ae = Unset

CallEnrollment ==
    /\ pc = "enrollment_metrics"
    /\ \E t1 \in Ties(dm, "SITEID"), t2 \in Ties(dm, "ARM") :
           enr' = enrollment_metrics(dm, t1, t2)
    /\ pc' = "done"
    /\ UNCHANGED <<source, files, dm, lb, ae, enr1, aes, lab>>

CallRefactorEnrollment ==
    /\ pc = "refactor_enrollment_metrics"
    /\ \E t1 \in Ties(dm, "SITEID"), t2 \in Ties(dm, "RACE") :
           enr1' = refactor_enrollment_metrics(dm, t1, t2)
    /\ pc' = "done"
    /\ UNCHANGED <<source, files, dm, lb, ae, enr, aes, lab>>

CallAeSummary ==
    /\ pc = "create_ae_summary"
    /\ \E t1 \in Ties(ae, "AESEV"), t2 \in Ties(ae, "AESER"),
          t3 \in Ties(ae, "AEDECOD") :
           aes' = create_ae_summary(ae, t1, t2, t3)
    /\ pc' = "done"
    /\ UNCHANGED <<source, files, dm, lb, ae, enr, enr1, lab>>

CallLabData ==
    /\ pc = "analyze_lab_data"
    /\ \E t \in LabTies(lb) : lab' = analyze_lab_data(lb, t)
    /\ pc' = "done"
    /\ UNCHANGED <<source, files, dm, lb, ae, enr, enr1, aes>>

Next ==
    \/ CallEnrollment
    \/ CallRefactorEnrollment
    \/ CallAeSummary
    \/ CallLabData

Spec == Init /\ [][Next]_vars

(***************************************************************************)
(* A run of the dashboard: main() of demodash.py, which loads from GitHub, *)
(* and main() of refactor3.py, which loads the local files.                *)
(***************************************************************************)
\* how reading a file can fail: the request (a RequestException), or the
\* parse of what it returned (pandas' ParserError / EmptyDataError)
RequestFails == [fails |-> "RequestException"]
ParseFails == [fails |-> "ParserError"]

DMFiles ==
    { DataFrame({"SITEID", "ARM", "ARMCD"},
                << [SITEID |-> "101", ARM |-> "A", ARMCD |-> "TRTA"],
                   [SITEID |-> "102", ARM |-> "B", ARMCD |-> "SCRNFAIL"] >>),
      DataFrame({"SITEID"}, << [SITEID |-> "101"] >>) }

LBFiles ==
    { DataFrame(LBColumns,
                << [LBTEST |-> "ALT", LBSTRESN |-> 30, LBNRIND |-> "H"],
                   [LBTEST |-> "AST", LBSTRESN |-> 20, LBNRIND |-> "L"] >>),
      DataFrame({"LBTEST"}, << [LBTEST |-> "ALT"] >>) }

AEFiles ==
    { DataFrame(AEColumns,
                << [AESEV |-> "MILD", AESER |-> "N", AEDECOD |-> "NAUSEA"],
                   [AESEV |-> "SEVERE", AESER |-> "Y", AEDECOD |-> "HEADACHE"] >>),
      DataFrame({}, << >>) }

\* load_data_from_github(file_name): the frame, None when the request failed, or
\* the exception that read_csv raised, which the except clause does not catch
load_data_from_github(content) ==
    IF content = RequestFails THEN None
    ELSE content

\* load_sdtm_data_local() / load_sdtm_data(): the three frames, or three None
\* when reading any of them raised
load_sdtm_data_local(f) ==
    IF \E n \in DOMAIN f : f[n] \in {RequestFails, ParseFails}
    THEN [dm |-> None, lb |-> None, ae |-> None]
    ELSE [dm |-> f["dm"], lb |-> f["lb"], ae |-> f["ae"]]

\* AllLoaded, were only the demographics tested
AllLoaded_dm_only(d, l, a) == d # None

\* main's guard: if dm is not None and lb is not None and ae is not None
AllLoaded(d, l, a) == d # None /\ l # None /\ a # None

MainInit ==
    /\ pc = "main"
    /\ source \in {"github", "local"}
    /\ files \in [dm : DMFiles \cup {RequestFails, ParseFails},
                  lb : LBFiles \cup {RequestFails, ParseFails},
                  ae : AEFiles \cup {RequestFails, ParseFails}]
    /\ dm = Unset /\ lb = Unset /\ ae = Unset
    /\ enr = Pending /\ enr1 = Pending /\ aes = Pending /\ lab = Pending

\* load_all_data(source): which loader runs
load_all_data ==
    /\ pc = "main"
    /\ pc' = IF source = "github" THEN "load_ae" ELSE "load_local"
    /\ UNCHANGED <<source, files, dm, lb, ae, enr, enr1, aes, lab>>

LoadAe ==
    /\ pc = "load_ae"
    /\ LET r == load_data_from_github(files.ae)
       IN  IF r = ParseFails
           THEN pc' = "crashed" /\ ae' = ae
           ELSE pc' = "load_dm" /\ ae' = r
    /\ UNCHANGED <<source, files, dm, lb, enr, enr1, aes, lab>>

LoadDm ==
    /\ pc = "load_dm"
    /\ LET r == load_data_from_github(files.dm)
       IN  IF r = ParseFails
           THEN pc' = "crashed" /\ dm' = dm
           ELSE pc' = "load_lb" /\ dm' = r
    /\ UNCHANGED <<source, files, lb, ae, enr, enr1, aes, lab>>

LoadLb ==
    /\ pc = "load_lb"
    /\ LET r == load_data_from_github(files.lb)
       IN  IF r = ParseFails
           THEN pc' = "crashed" /\ lb' = lb
           ELSE pc' = "loaded" /\ lb' = r
    /\ UNCHANGED <<source, files, dm, ae, enr, enr1, aes, lab>>

LoadLocal ==
    /\ pc = "load_local"
    /\ LET r == load_sdtm_data_local(files)
       IN  dm' = r.dm /\ lb' = r.lb /\ ae' = r.ae
    /\ pc' = "loaded"
    /\ UNCHANGED <<source, files, enr, enr1, aes, lab>>

\* main, line 106: the tabs are built only when all three frames loaded
MainCheck ==
    /\ pc = "loaded"
    /\ pc' = IF AllLoaded(dm, lb, ae) THEN "tab1" ELSE "done"
    /\ UNCHANGED <<source, files, dm, lb, ae, enr, enr1, aes, lab>>

\* the Enrollment tab; a KeyError ends the run
MainTab1 ==
    /\ pc = "tab1"
    /\ \E t1 \in Ties(dm, "SITEID"), t2 \in Ties(dm, "ARM") :
           enr' = enrollment_metrics(dm, t1, t2)
    /\ pc' = IF enr'.state = "raised" THEN "crashed" ELSE "tab2"
    /\ UNCHANGED <<source, files, dm, lb, ae, enr1, aes, lab>>

\* the Safety tab
MainTab2 ==
    /\ pc = "tab2"
    /\ \E t1 \in Ties(ae, "AESEV"), t2 \in Ties(ae, "AESER"),
          t3 \in Ties(ae, "AEDECOD") :
           aes' = create_ae_summary(ae, t1, t2, t3)
    /\ pc' = "tab3"
    /\ UNCHANGED <<source, files, dm, lb, ae, enr, enr1, lab>>

\* the Laboratory Data tab
MainTab3 ==
    /\ pc = "tab3"
    /\ \E t \in LabTies(lb) : lab' = analyze_lab_data(lb, t)
    /\ pc' = "done"
    /\ UNCHANGED <<source, files, dm, lb, ae, enr, enr1, aes>>

MainNext ==
    \/ load_all_data
    \/ LoadAe
    \/ LoadDm
    \/ LoadLb
    \/ LoadLocal
    \/ MainCheck
    \/ MainTab1
    \/ MainTab2
    \/ MainTab3

SpecMain == MainInit /\ [][MainNext]_vars

(***************************************************************************)
(* What the properties are stated with.                                    *)
(***************************************************************************)
Returned(r) == r.state = "returned"
Raised(r) == r.state = "raised"
IsFrame(x) == x # None /\ x # Unset

KeysOf(s) == {s[i].key : i \in 1..Len(s)}
CountIn(s, k) ==
    IF \E i \in 1..Len(s) : s[i].key = k
    THEN (s[CHOOSE i \in 1..Len(s) : s[i].key = k]).count
    ELSE 0
DistinctKeys(s) == Cardinality(KeysOf(s)) = Len(s)

RECURSIVE SumCounts(_)
SumCounts(s) ==
    IF Len(s) = 0 THEN 0 ELSE s[1].count + SumCounts(Tail(s))

ValuesOf(cells) == {cells[i] : i \in 1..Len(cells)} \ {NaN}
NonMissing(cells) == Cardinality({i \in 1..Len(cells) : cells[i] # NaN})

\* the cells of column c, none when the schema lacks it
CellsOf(df, c) == IF c \in df.columns THEN Column(df, c) ELSE <<>>

\* every series of counts returned so far
CountSeries ==
    (IF Returned(enr) THEN {enr.subjects_by_site, enr.subjects_by_arm} ELSE {})
    \cup (IF Returned(enr1)
          THEN {enr1.subjects_by_site, enr1.race_distribution} ELSE {})
    \cup (IF Returned(aes)
          THEN {aes.ae_by_severity, aes.serious_ae, aes.common_ae} ELSE {})
    \cup (IF Returned(lab) THEN {lab.abnormal_labs} ELSE {})

\* every untruncated grouping returned so far, with the cells it grouped
Groupings ==
    (IF Returned(enr)
     THEN {<<enr.subjects_by_site, CellsOf(dm, "SITEID")>>,
           <<enr.subjects_by_arm, CellsOf(dm, "ARM")>>} ELSE {})
    \cup (IF Returned(enr1)
          THEN {<<enr1.subjects_by_site, CellsOf(dm, "SITEID")>>,
                <<enr1.race_distribution, CellsOf(dm, "RACE")>>} ELSE {})
    \cup (IF Returned(aes)
          THEN {<<aes.ae_by_severity, CellsOf(ae, "AESEV")>>,
                <<aes.serious_ae, CellsOf(ae, "AESER")>>} ELSE {})

(***************************************************************************)
(* C1.  Whatever columns the schema lacks, enrollment_metrics and          *)
(* create_ae_summary return without raising, and each aggregation over an  *)
(* absent column is the empty mapping (0 for the screen-failure count).    *)
(* The code indexes dm['SITEID'] and dm['ARM'] unguarded: C1_NoRaise       *)
(* states the claim and is violated.                                       *)
(***************************************************************************)
C1_NoRaise ==
    /\ ~Raised(enr) /\ ~Raised(enr1) /\ ~Raised(aes)
    /\ Returned(enr) =>
           /\ "SITEID" \notin dm.columns => enr.subjects_by_site = <<>>
           /\ "ARM" \notin dm.columns => enr.subjects_by_arm = <<>>
           /\ "ARMCD" \notin dm.columns => enr.screen_failures = 0
    /\ Returned(enr1) =>
           /\ "SITEID" \notin dm.columns => enr1.subjects_by_site = <<>>
           /\ "RACE" \notin dm.columns => enr1.race_distribution = <<>>
           /\ "ARMCD" \notin dm.columns => enr1.screen_failures = 0
    /\ Returned(aes) =>
           /\ "AESEV" \notin ae.columns => aes.ae_by_severity = <<>>
           /\ "AESER" \notin ae.columns => aes.serious_ae = <<>>
           /\ "AEDECOD" \notin ae.columns => aes.common_ae = <<>>

(***************************************************************************)
(* C2.  abnormalCountByTest maps each test name to the number of its       *)
(* records whose range indicator is an abnormal code, and has no other     *)
(* key.  AbnormalCounts(codes) states it for a set of codes, on a lab      *)
(* frame that has the three columns.                                       *)
(***************************************************************************)
AbnormalRows(k, codes) ==
    {i \in 1..len(lb) : lb.rows[i]["LBTEST"] = k /\ lb.rows[i]["LBNRIND"] \in codes}

AbnormalCounts(codes) ==
    (Returned(lab) /\ LBColumns \subseteq lb.columns) =>
        /\ DistinctKeys(lab.abnormal_labs)
        /\ \A k \in ValuesOf(Column(lb, "LBTEST")) \cup KeysOf(lab.abnormal_labs) :
               /\ k # NaN
               /\ CountIn(lab.abnormal_labs, k) = Cardinality(AbnormalRows(k, codes))
        /\ \A i \in 1..Len(lab.abnormal_labs) : lab.abnormal_labs[i].count >= 1

NumericRows(k) ==
    {i \in 1..len(lb) : lb.rows[i]["LBTEST"] = k /\ lb.rows[i]["LBSTRESN"] # NaNf}

MeanIn(s, k) == (s[CHOOSE i \in 1..Len(s) : s[i].key = k]).mean

\* C3 as claimed: the keys of meanByTest are the tests with a numeric result,
\* each with the mean of its numeric results (violated: a test with none is
\* kept, with a NaN mean)
C3_MeanKeys ==
    (Returned(lab) /\ {"LBTEST", "LBSTRESN"} \subseteq lb.columns) =>
        /\ DistinctKeys(lab.lab_means)
        /\ \A k \in KeysOf(lab.lab_means) : NumericRows(k) # {}
        /\ \A k \in ValuesOf(Column(lb, "LBTEST")) :
               NumericRows(k) # {} =>
                   /\ k \in KeysOf(lab.lab_means)
                   /\ LET m == MeanIn(lab.lab_means, k)
                      IN  /\ m.den > 0
                          /\ m.num * Cardinality(NumericRows(k))
                                 = m.den * Sum(Column(lb, "LBSTRESN"), NumericRows(k))

(***************************************************************************)
(* C4.  Every series of counts is ordered by count descending, ties by key *)
(* ascending.                                                              *)
(***************************************************************************)
\* C4 as claimed: of two consecutive entries the first has the larger count,
\* or the same count and the smaller key (violated: value_counts does not
\* order equal counts by key)
C4_CountThenKey ==
    \A s \in CountSeries : \A i \in 1..(Len(s) - 1) :
        \/ s[i].count > s[i + 1].count
        \/ s[i].count = s[i + 1].count /\ KeyLess(s[i].key, s[i + 1].key)

\* C4 as amended: of two consecutive entries the first has the larger or the
\* same count, and no key comes twice
C4_CountDescending ==
    \A s \in CountSeries :
        /\ DistinctKeys(s)
        /\ \A i \in 1..(Len(s) - 1) : s[i].count >= s[i + 1].count

\* C4, reached: a series with a strict descent and then a tie whose keys descend
C4_Witness ==
    \E s \in CountSeries :
        /\ Len(s) = 3
        /\ s[1].count > s[2].count
        /\ s[2].count = s[3].count /\ KeyLess(s[3].key, s[2].key)

(***************************************************************************)
(* C5.  topEvents has at most 10 entries: all the terms when there are     *)
(* fewer than 10, else the first 10 of the order, each with its full       *)
(* count.                                                                  *)
(***************************************************************************)
Terms == ValuesOf(CellsOf(ae, "AEDECOD"))
TermCount(k) == CountOf(Column(ae, "AEDECOD"), k)

\* k comes before j by count descending, then key ascending
Before(k, j) ==
    \/ TermCount(k) > TermCount(j)
    \/ TermCount(k) = TermCount(j) /\ KeyLess(k, j)

FullCounts ==
    /\ DistinctKeys(aes.common_ae)
    /\ KeysOf(aes.common_ae) \subseteq Terms
    /\ \A i \in 1..Len(aes.common_ae) :
           aes.common_ae[i].count = TermCount(aes.common_ae[i].key)

\* C5 as claimed: the terms kept are those with fewer than 10 terms before
\* them by count descending, then key ascending (violated: which of equally
\* frequent terms are kept at the cut does not go by key)
C5_TopByCountThenKey ==
    (Returned(aes) /\ "AEDECOD" \in ae.columns) =>
        /\ Len(aes.common_ae) <= TopN
        /\ FullCounts
        /\ KeysOf(aes.common_ae) =
               {k \in Terms : Cardinality({j \in Terms : Before(j, k)}) < TopN}

\* C5 as amended: at most 10 entries, all the terms when there are fewer
\* than 10, else 10 terms none of which is less frequent than a term left
\* out, each with its full count
C5_TopByCount ==
    (Returned(aes) /\ "AEDECOD" \in ae.columns) =>
        /\ Len(aes.common_ae) <= TopN
        /\ FullCounts
        /\ Cardinality(Terms) < TopN => KeysOf(aes.common_ae) = Terms
        /\ Cardinality(Terms) >= TopN => Len(aes.common_ae) = TopN
        /\ \A k \in KeysOf(aes.common_ae) : \A j \in Terms \ KeysOf(aes.common_ae) :
               TermCount(k) >= TermCount(j)

\* C5, reached: more than 10 terms, 10 kept, and a term left out whose key is smaller
\* than that of an equally frequent term kept
C5_Witness ==
    /\ Returned(aes) /\ "AEDECOD" \in ae.columns
    /\ Cardinality(Terms) > TopN
    /\ Len(aes.common_ae) = TopN
    /\ \E k \in KeysOf(aes.common_ae) : \E j \in Terms \ KeysOf(aes.common_ae) :
           TermCount(k) = TermCount(j) /\ KeyLess(j, k)

(***************************************************************************)
(* C6.  For every untruncated grouping that is returned, the counts sum to *)
(* the number of records with a value in the grouped field, every count is *)
(* at least 1, and the sum is the number of records when none lacks the    *)
(* value.                                                                  *)
(***************************************************************************)
C6_SumOfCounts ==
    \A g \in Groupings :
        /\ SumCounts(g[1]) = NonMissing(g[2])
        /\ \A i \in 1..Len(g[1]) : g[1][i].count >= 1
        /\ KeysOf(g[1]) = ValuesOf(g[2])
        /\ NonMissing(g[2]) = Len(g[2]) => SumCounts(g[1]) = Len(g[2])

\* C6, reached: a grouping of three records, one of them without the value
C6_Witness ==
    \E g \in Groupings :
        /\ Len(g[2]) = 3 /\ NonMissing(g[2]) = 2
        /\ SumCounts(g[1]) = 2 /\ Len(g[1]) = 2

(***************************************************************************)
(* C7.  The screen-failure count that enrollment_metrics returns is the    *)
(* number of records whose ARMCD is exactly "SCRNFAIL" when the schema has *)
(* ARMCD, 0 when it has not, and never more than the total.                *)
(***************************************************************************)
ScreenFailureRows == {i \in 1..len(dm) : dm.rows[i]["ARMCD"] = "SCRNFAIL"}

ScreenFailuresOf(r) ==
    Returned(r) =>
        /\ "ARMCD" \in dm.columns =>
               r.screen_failures = Cardinality(ScreenFailureRows)
        /\ "ARMCD" \notin dm.columns => r.screen_failures = 0
        /\ r.screen_failures <= r.total_subjects

\* C7: both enrollment_metrics return the number of 'SCRNFAIL' records, 0
\* without the ARMCD column, never more than the total
C7_ScreenFailures == ScreenFailuresOf(enr) /\ ScreenFailuresOf(enr1)

\* C7, reached: three records: one screen failure, one other code, one without a code
C7_Witness ==
    /\ Returned(enr) /\ "ARMCD" \in dm.columns /\ len(dm) = 3
    /\ enr.screen_failures = 1
    /\ \E i \in 1..3 : dm.rows[i]["ARMCD"] = NaN
    /\ \E i \in 1..3 : dm.rows[i]["ARMCD"] \notin {NaN, "SCRNFAIL"}

(***************************************************************************)
(* C8.  For every subject frame passed to enrollment_metrics, whichever    *)
(* optional columns it has, totalSubjects is the number of its records.    *)
(* Without the ARM column the call raises (C1) and yields no total:        *)
(* C8_TotalSubjects states the claim and is violated.                      *)
(***************************************************************************)
C8_TotalSubjects ==
    (pc = "done" /\ IsFrame(dm) /\ "SITEID" \in dm.columns) =>
        /\ enr # Pending => Returned(enr) /\ enr.total_subjects = len(dm)
        /\ enr1 # Pending => Returned(enr1) /\ enr1.total_subjects = len(dm)

(***************************************************************************)
(* C9.  Without the LBNRIND column, analyze_lab_data returns no abnormal   *)
(* count and the means it returns for the same records with an LBNRIND     *)
(* column added; without LBTEST or LBSTRESN it returns no mean, and it     *)
(* never raises.                                                           *)
(***************************************************************************)
\* df with column c added, holding cells
WithColumn(df, c, cells) ==
    [columns |-> df.columns \cup {c},
     rows |-> [i \in 1..len(df) |->
                  [x \in df.columns \cup {c} |->
                      IF x = c THEN cells[i] ELSE df.rows[i][x]]]]

\* C9: no abnormal count and unchanged means without LBNRIND; no mean without
\* LBTEST or LBSTRESN; a return in every case
C9_MissingLabColumns ==
    (pc = "done" /\ IsFrame(lb)) =>
        /\ Returned(lab)
        /\ ({"LBTEST", "LBSTRESN"} \subseteq lb.columns /\ "LBNRIND" \notin lb.columns) =>
               /\ lab.abnormal_labs = <<>>
               /\ \A cells \in [1..len(lb) -> {"H", "normal", NaN}] :
                      lab.lab_means =
                          analyze_lab_data(WithColumn(lb, "LBNRIND", cells),
                                           StableTie).lab_means
        /\ ~({"LBTEST", "LBSTRESN"} \subseteq lb.columns) => lab.lab_means = <<>>

\* C9, reached: means computed for two tests from a frame without LBNRIND
C9_Witness ==
    /\ Returned(lab) /\ lb.columns = {"LBTEST", "LBSTRESN"}
    /\ Len(lab.lab_means) = 2 /\ lab.abnormal_labs = <<>>

(***************************************************************************)
(* C10.  In a run of the dashboard no analyzer is called unless the three  *)
(* frames loaded; when a load failed, the run ends with none called.       *)
(***************************************************************************)
AnyCalled == enr # Pending \/ enr1 # Pending \/ aes # Pending \/ lab # Pending

\* C10: an analyzer was called, or a tab is being built, only with the three
\* frames loaded; a run that ended with a frame missing called none
C10_NoCallWithoutData ==
    /\ AnyCalled => IsFrame(dm) /\ IsFrame(lb) /\ IsFrame(ae)
    /\ pc \in {"tab1", "tab2", "tab3"} => IsFrame(dm) /\ IsFrame(lb) /\ IsFrame(ae)
    /\ (pc \in {"done", "crashed"} /\ None \in {dm, lb, ae}) => ~AnyCalled

\* C10, reached: a GitHub run that ended with one frame loaded, one load failed, nothing called
C10_Witness ==
    /\ pc = "done" /\ source = "github"
    /\ IsFrame(ae) /\ dm = None
    /\ ~AnyCalled

(***************************************************************************)
(* C11.  The abnormal count is computed only inside the branch that has    *)
(* both LBSTRESN and LBTEST: without either column abnormalCountByTest is  *)
(* empty, even when LBNRIND and LBTEST are there and records carry an      *)
(* abnormal code; it is non-empty only with the three columns.             *)
(***************************************************************************)
C11_AbnormalGated ==
    Returned(lab) =>
        /\ ~({"LBSTRESN", "LBTEST"} \subseteq lb.columns) => lab.abnormal_labs = <<>>
        /\ lab.abnormal_labs # <<>> => LBColumns \subseteq lb.columns

\* C11, reached: LBTEST and LBNRIND without LBSTRESN, a record with a test name
\* and an abnormal code, and no count
C11_Witness ==
    /\ Returned(lab) /\ lb.columns = {"LBTEST", "LBNRIND"}
    /\ \E i \in 1..len(lb) :
           lb.rows[i]["LBNRIND"] \in {"L", "H"} /\ lb.rows[i]["LBTEST"] # NaN
    /\ lab.abnormal_labs = <<>>

====
